---- MODULE Spec2Model ----
(***************************************************************************)
(* Model of the snake-game score verifier (src/src/sp1/snake_verifier.rs)  *)
(* and of the browser-side GameState object (src/wasm/src/lib.rs).         *)
(*                                                                         *)
(* u32 values are kept at full width as two 16-bit limbs [hi, lo], because *)
(* the model checker's integers are 32-bit signed; i32 values are plain    *)
(* integers and every i32 operation reports whether it overflowed.         *)
(***************************************************************************)
EXTENDS Integers, Sequences, FiniteSets, TLC

(* ---------------------------- bounds ---------------------------------- *)
MaxGrid == 5
MaxGridH == 2
MaxScore == 12
MaxSnakeLen == 6
MaxNegScore == 11

(* ------------------------ machine integers ---------------------------- *)
Limb == 65536
I32Max == 2147483647
I32Min == (-2147483647) - 1
HashLen == 32

U32(n) == [hi |-> n \div Limb, lo |-> n % Limb]
U32Top == [hi |-> Limb - 1, lo |-> Limb - 1]

U32AddOverflows(a, b) ==
    a.hi + b.hi + ((a.lo + b.lo) \div Limb) >= Limb

U32WrappingAdd(a, b) ==
    [hi |-> (a.hi + b.hi + ((a.lo + b.lo) \div Limb)) % Limb,
     lo |-> (a.lo + b.lo) % Limb]

U32SubOverflows(a, b) ==
    a.hi - b.hi - (IF a.lo < b.lo THEN 1 ELSE 0) < 0

U32WrappingSub(a, b) ==
    [hi |-> (a.hi - b.hi - (IF a.lo < b.lo THEN 1 ELSE 0) + Limb) % Limb,
     lo |-> (a.lo - b.lo + Limb) % Limb]

\* a / d and a % d for a small divisor d (1 <= d < 2^15), long division by limb
U32Div(a, d) ==
    [hi |-> a.hi \div d, lo |-> (((a.hi % d) * Limb) + a.lo) \div d]

U32Rem(a, d) == (((a.hi % d) * Limb) + a.lo) % d

U32Le(a, b) == a.hi < b.hi \/ (a.hi = b.hi /\ a.lo <= b.lo)

\* i32 division and remainder truncate toward zero (d > 0 here)
I32Div(a, d) == IF a >= 0 THEN a \div d ELSE (a + (d - 1)) \div d

I32Rem(a, d) == a - (d * I32Div(a, d))

I32AddOverflows(a, b) ==
    IF b >= 0 THEN a > I32Max - b ELSE a < I32Min - b

I32WrappingAdd(a, b) ==
    IF ~I32AddOverflows(a, b) THEN a + b
    ELSE IF b >= 0 THEN (a + I32Min) + (b + I32Min)
    ELSE (a - I32Min) + (b - I32Min)

I32SubOverflows(a, b) ==
    IF b >= 0 THEN a < I32Min + b ELSE a > I32Max + b

I32WrappingSub(a, b) ==
    IF ~I32SubOverflows(a, b) THEN a - b
    ELSE IF b >= 0 THEN (a - I32Min) - (b + I32Min)
    ELSE (a + I32Min) - (b - I32Min)

I32AbsOverflows(a) == a = I32Min

I32WrappingAbs(a) == IF a = I32Min THEN I32Min ELSE IF a < 0 THEN 0 - a ELSE a

\* usize -> i32 cast of a small length
AsI32(n) == IF n <= I32Max THEN n ELSE I32Min

(* --------------------- sp1/snake_verifier.rs -------------------------- *)
SnakeGamePublicInputs(h, s, l) ==
    [game_state_hash |-> h, score |-> s, snake_length |-> l]

SnakeGamePrivateInputs(m, f, i) ==
    [game_moves |-> m, food_positions |-> f, initial_snake |-> i]

\* variant: the division by 10 left out
expected_snake_length_no_div(score) ==
    [v  |-> U32WrappingAdd(U32(3), score),
     of |-> U32AddOverflows(U32(3), score)]

\* let expected_snake_length = 3 + (public_inputs.score / 10);
expected_snake_length(score) ==
    [v  |-> U32WrappingAdd(U32(3), U32Div(score, 10)),
     of |-> U32AddOverflows(U32(3), U32Div(score, 10))]

\* (expected_snake_length - 1..=expected_snake_length + 1).contains(&snake_length)
length_valid(expected, snake_length) ==
    [v  |-> /\ U32Le(U32WrappingSub(expected, U32(1)), snake_length)
            /\ U32Le(snake_length, U32WrappingAdd(expected, U32(1))),
     of |-> \/ U32SubOverflows(expected, U32(1))
            \/ U32AddOverflows(expected, U32(1))]

\* public_inputs.score % 10 == 0 || public_inputs.score == 0
score_valid(score) == U32Rem(score, 10) = 0 \/ score = U32(0)

\* variant: the multiple-of-10 check left out
snake_game_verifier_no_score_check(public_inputs, private_inputs) ==
    length_valid(expected_snake_length(public_inputs.score).v,
                 public_inputs.snake_length).v

\* the value returned, arithmetic wrapping
snake_game_verifier(public_inputs, private_inputs) ==
    /\ length_valid(expected_snake_length(public_inputs.score).v,
                    public_inputs.snake_length).v
    /\ score_valid(public_inputs.score)

\* whether some u32 operation of the call overflowed (a panic in a checked build)
snake_game_verifier_overflows(public_inputs, private_inputs) ==
    \/ expected_snake_length(public_inputs.score).of
    \/ length_valid(expected_snake_length(public_inputs.score).v,
                    public_inputs.snake_length).of

(* --------------------------- wasm/lib.rs ------------------------------ *)
Position(x, y) == [x |-> x, y |-> y]

GameState_new(grid_width, grid_height) ==
    LET initial_x == I32Div(grid_width, 2)
        initial_y == I32Div(grid_height, 2)
    IN [snake |-> << Position(initial_x, initial_y),
                     Position(I32WrappingSub(initial_x, 1), initial_y),
                     Position(I32WrappingSub(initial_x, 2), initial_y) >>,
        food |-> Position(0, 0),
        grid_width |-> grid_width,
        grid_height |-> grid_height]

\* variant: wall test off by one (> instead of >=)
check_collision_wall_off_by_one(self, head_x, head_y) ==
    IF \/ head_x < 0 \/ head_x > self.grid_width
       \/ head_y < 0 \/ head_y > self.grid_height
    THEN TRUE
    ELSE \E i \in 2..Len(self.snake) :
            head_x = self.snake[i].x /\ head_y = self.snake[i].y

\* variant: the loop skips the second segment as well as the head
check_collision_skip_second(self, head_x, head_y) ==
    IF \/ head_x < 0 \/ head_x >= self.grid_width
       \/ head_y < 0 \/ head_y >= self.grid_height
    THEN TRUE
    ELSE \E i \in 3..Len(self.snake) :
            head_x = self.snake[i].x /\ head_y = self.snake[i].y

check_collision(self, head_x, head_y) ==
    IF \/ head_x < 0 \/ head_x >= self.grid_width
       \/ head_y < 0 \/ head_y >= self.grid_height
    THEN TRUE
    ELSE \E i \in 2..Len(self.snake) :
            head_x = self.snake[i].x /\ head_y = self.snake[i].y

\* let expected_length = 3 + (score / 10);
expected_length(score) ==
    [v  |-> I32WrappingAdd(3, I32Div(score, 10)),
     of |-> I32AddOverflows(3, I32Div(score, 10))]

\* (expected_length - actual_length).abs()
length_difference(expected, actual_length) ==
    [v  |-> I32WrappingAbs(I32WrappingSub(expected, actual_length)),
     of |-> \/ I32SubOverflows(expected, actual_length)
            \/ I32AbsOverflows(I32WrappingSub(expected, actual_length))]

\* variant: strict comparison (< 1 instead of <= 1)
verify_score_strict(self, score) ==
    /\ length_difference(expected_length(score).v, AsI32(Len(self.snake))).v < 1
    /\ (I32Rem(score, 10) = 0 \/ score = 0)

verify_score(self, score) ==
    /\ length_difference(expected_length(score).v, AsI32(Len(self.snake))).v <= 1
    /\ (I32Rem(score, 10) = 0 \/ score = 0)

verify_score_overflows(self, score) ==
    \/ expected_length(score).of
    \/ length_difference(expected_length(score).v, AsI32(Len(self.snake))).of

(* ----------------------------- inputs --------------------------------- *)
GridWidthInputs == (-1..MaxGrid) \cup {10, I32Max, I32Min}
GridHeightInputs == (0..MaxGridH) \cup {10, I32Min}

HeadInputs(self, lo, hi) ==
    (lo..hi) \cup {I32Min, I32Max}
      \cup {self.snake[i].x : i \in 1..Len(self.snake)}
      \cup {self.snake[i].y : i \in 1..Len(self.snake)}

I32ScoreInputs ==
    ((0 - MaxNegScore)..MaxScore)
      \cup {I32Min, I32Min + 8, I32Max, I32Max - 7, -2147483640, 2147483640}

U32ScoreInputs ==
    {U32(n) : n \in 0..MaxScore}
      \cup {U32(I32Max), U32(2147483640), [hi |-> 32768, lo |-> 0],
            [hi |-> 32768, lo |-> 2],
            [hi |-> 65535, lo |-> 65530], U32Top}

U32LengthInputs ==
    {U32(n) : n \in 0..MaxSnakeLen}
      \cup {U32(n) : n \in 429496730..429496734}
      \cup {U32(214748367), U32(214748368), U32Top}

ZeroHash == [i \in 1..HashLen |-> 0]

HashInputs ==
    {ZeroHash, [ZeroHash EXCEPT ![HashLen] = 255]}

PrivateInputs ==
    {SnakeGamePrivateInputs(<< >>, << >>, << >>),
     SnakeGamePrivateInputs(<<3>>, << <<U32(6), U32(5)>> >>,
        << <<U32(5), U32(5)>>, <<U32(4), U32(5)>>, <<U32(3), U32(5)>> >>)}

NoPublic == SnakeGamePublicInputs(ZeroHash, U32(0), U32(0))
NoPrivate == SnakeGamePrivateInputs(<< >>, << >>, << >>)

(* ------------------------------ state --------------------------------- *)
VARIABLES gs, op, head, score, public_inputs, private_inputs, ret, fault

vars == << gs, op, head, score, public_inputs, private_inputs, ret, fault >>

Init ==
    /\ \E w \in GridWidthInputs, h \in GridHeightInputs : gs = GameState_new(w, h)
    /\ op = "new"
    /\ head = Position(0, 0)
    /\ score = 0
    /\ public_inputs = NoPublic
    /\ private_inputs = NoPrivate
    /\ ret = FALSE
    /\ fault = FALSE

New ==
    \E w \in GridWidthInputs, h \in GridHeightInputs :
        /\ gs' = GameState_new(w, h)
        /\ op' = "new"
        /\ head' = Position(0, 0)
        /\ score' = 0
        /\ public_inputs' = NoPublic
        /\ private_inputs' = NoPrivate
        /\ ret' = FALSE
        /\ fault' = FALSE

CheckCollision ==
    \E hx \in HeadInputs(gs, -1, MaxGrid + 1), hy \in HeadInputs(gs, -1, MaxGridH + 1) :
        /\ op' = "check_collision"
        /\ head' = Position(hx, hy)
        /\ ret' = check_collision(gs, hx, hy)
        /\ fault' = FALSE
        /\ score' = 0
        /\ public_inputs' = NoPublic
        /\ private_inputs' = NoPrivate
        /\ UNCHANGED gs

VerifyScore ==
    \E s \in I32ScoreInputs :
        /\ op' = "verify_score"
        /\ score' = s
        /\ ret' = verify_score(gs, s)
        /\ fault' = verify_score_overflows(gs, s)
        /\ head' = Position(0, 0)
        /\ public_inputs' = NoPublic
        /\ private_inputs' = NoPrivate
        /\ UNCHANGED gs

SnakeGameVerifier ==
    \E h \in HashInputs, s \in U32ScoreInputs, l \in U32LengthInputs,
       p \in PrivateInputs :
        /\ op' = "snake_game_verifier"
        /\ public_inputs' = SnakeGamePublicInputs(h, s, l)
        /\ private_inputs' = p
        /\ ret' = snake_game_verifier(SnakeGamePublicInputs(h, s, l), p)
        /\ fault' = snake_game_verifier_overflows(SnakeGamePublicInputs(h, s, l), p)
        /\ head' = Position(0, 0)
        /\ score' = 0
        /\ UNCHANGED gs

\* the browser-side GameState object
Next == New \/ CheckCollision \/ VerifyScore

Spec == Init /\ [][Next]_vars

\* the two score checks side by side: the SP1 program's verifier and
\* verify_score on the freshly constructed GameState
InitScore ==
    /\ gs = GameState_new(10, 10)
    /\ op = "new"
    /\ head = Position(0, 0)
    /\ score = 0
    /\ public_inputs = NoPublic
    /\ private_inputs = NoPrivate
    /\ ret = FALSE
    /\ fault = FALSE

NextScore == VerifyScore \/ SnakeGameVerifier

SpecScore == InitScore /\ [][NextScore]_vars

(* ============================ properties ============================== *)
\* 10 * k = s exactly, with no u32 overflow
Times10Equals(k, s) ==
    /\ (k.hi * 10) + ((k.lo * 10) \div Limb) < Limb
    /\ (k.hi * 10) + ((k.lo * 10) \div Limb) = s.hi
    /\ (k.lo * 10) % Limb = s.lo

U32ToInt(u) == (u.hi * Limb) + u.lo

InGrid(self, p) ==
    /\ 0 <= p.x /\ p.x < self.grid_width
    /\ 0 <= p.y /\ p.y < self.grid_height

\* a hypothetical GameState whose snake has n segments
WithSegments(self, n) ==
    [self EXCEPT !.snake = [i \in 1..n |-> Position(5 - (i - 1), 5)]]

\* C1: snake_game_verifier returns true exactly when the score is ten times a
\* food count k and snake_length is k + 2, k + 3 or k + 4 (the closed range
\* [3 + score/10 - 1, 3 + score/10 + 1]); hash and private inputs play no part.
C1_VerifierIffScoreAndRange ==
    op = "snake_game_verifier" =>
        (ret <=> \E d \in 2..4 :
                    /\ U32Le(U32(d), public_inputs.snake_length)
                    /\ Times10Equals(
                          U32WrappingSub(public_inputs.snake_length, U32(d)),
                          public_inputs.score))

C1_Witness ==
    /\ op = "snake_game_verifier"
    /\ ret
    /\ public_inputs.score = [hi |-> 65535, lo |-> 65530]
    /\ public_inputs.snake_length = U32(429496733)
    /\ public_inputs.game_state_hash # ZeroHash
    /\ private_inputs # NoPrivate

\* C2: length verification is exact: an accepted score comes with a snake
\* length equal to 3 + score/10 (stated as the claim; the code accepts +-1).
C2_ExactLength ==
    /\ (op = "snake_game_verifier" /\ ret) =>
          /\ U32Le(U32(3), public_inputs.snake_length)
          /\ Times10Equals(U32WrappingSub(public_inputs.snake_length, U32(3)),
                           public_inputs.score)
    /\ (op = "verify_score" /\ ret) =>
          Len(gs.snake) = 3 + I32Div(score, 10)

\* C3: the accepted claim is bound to the hash: changing any single byte of
\* game_state_hash of accepted public inputs makes the verifier reject.
C3_HashBound ==
    (op = "snake_game_verifier" /\ ret) =>
        \A i \in 1..HashLen, b \in 0..255 :
            b # public_inputs.game_state_hash[i] =>
                ~snake_game_verifier(
                    [public_inputs EXCEPT !.game_state_hash[i] = b],
                    private_inputs)

\* C4: a candidate head on the tail cell (inside the grid, not the food cell)
\* is not reported as a collision.
C4_TailCellIsLegal ==
    ( /\ op = "check_collision"
      /\ InGrid(gs, gs.snake[Len(gs.snake)])
      /\ head = gs.snake[Len(gs.snake)]
      /\ head # gs.food ) => ~ret

\* C5: a candidate head outside [0, grid_width) x [0, grid_height) is always a
\* collision; one inside that equals no segment of index >= 1 never is.
C5_WallAndFreeCell ==
    op = "check_collision" =>
        /\ ~InGrid(gs, head) => ret
        /\ (InGrid(gs, head) /\ \A i \in 2..Len(gs.snake) : gs.snake[i] # head)
              => ~ret

C5_Witness ==
    /\ op = "check_collision"
    /\ gs.grid_width > 0
    /\ head.x = gs.grid_width
    /\ 0 <= head.y /\ head.y < gs.grid_height
    /\ \A i \in 1..Len(gs.snake) : gs.snake[i] # head
    /\ ret

\* C6: a candidate head on a non-tail body segment (index 1 .. len-2, counted
\* from 0) is a collision; on GameState::new(10, 10), snake
\* [(5,5),(4,5),(3,5)], the reversal into (4,5) is a collision.
C6_BodyCollision ==
    op = "check_collision" =>
        /\ (\E i \in 2..(Len(gs.snake) - 1) : gs.snake[i] = head) => ret
        /\ ( /\ gs.grid_width = 10 /\ gs.grid_height = 10
             /\ gs.snake = << Position(5, 5), Position(4, 5), Position(3, 5) >>
             /\ head = Position(4, 5) ) => ret

C6_Witness ==
    /\ op = "check_collision"
    /\ gs = GameState_new(10, 10)
    /\ gs.snake = << Position(5, 5), Position(4, 5), Position(3, 5) >>
    /\ head = Position(4, 5)
    /\ ret

\* C7: for positive grid bounds GameState::new builds a valid initial state:
\* segments inside the grid, pairwise distinct, each adjacent to the next, and
\* the food cell on no segment.
C7_ValidInitialState ==
    (op = "new" /\ gs.grid_width > 0 /\ gs.grid_height > 0) =>
        /\ \A i \in 1..Len(gs.snake) : InGrid(gs, gs.snake[i])
        /\ \A i, j \in 1..Len(gs.snake) : i # j => gs.snake[i] # gs.snake[j]
        /\ \A i \in 1..(Len(gs.snake) - 1) :
              /\ gs.snake[i].y = gs.snake[i + 1].y
              /\ gs.snake[i].x - gs.snake[i + 1].x \in {-1, 1}
        /\ \A i \in 1..Len(gs.snake) : gs.snake[i] # gs.food

\* C8: no call of snake_game_verifier (u32) or verify_score (i32) overflows in
\* any of its arithmetic; every call returns a boolean.
C8_NoOverflow ==
    op \in {"snake_game_verifier", "verify_score"} =>
        (~fault /\ ret \in BOOLEAN)

C8_Witness ==
    /\ op = "snake_game_verifier"
    /\ public_inputs.score = U32Top
    /\ public_inputs.snake_length = U32Top
    /\ ~fault
    /\ ~ret

\* C9: for a score in 0..=i32::MAX and a snake of n >= 1 segments the two
\* score checks return the same boolean.
C9_SameCheck ==
    /\ (op = "verify_score" /\ score >= 0) =>
          /\ ret = snake_game_verifier(
                     SnakeGamePublicInputs(ZeroHash, U32(score),
                                           U32(Len(gs.snake))), NoPrivate)
          /\ \A n \in 1..MaxSnakeLen :
                verify_score(WithSegments(gs, n), score)
                  = snake_game_verifier(
                      SnakeGamePublicInputs(ZeroHash, U32(score), U32(n)),
                      NoPrivate)
    /\ ( /\ op = "snake_game_verifier"
         /\ public_inputs.score.hi < 32768
         /\ public_inputs.snake_length.hi = 0
         /\ public_inputs.snake_length.lo \in 1..MaxSnakeLen ) =>
          ret = verify_score(
                  WithSegments(gs, U32ToInt(public_inputs.snake_length)),
                  U32ToInt(public_inputs.score))

C9_Witness ==
    /\ op = "verify_score"
    /\ score = 10
    /\ Len(gs.snake) = 3
    /\ ret
    /\ snake_game_verifier(
          SnakeGamePublicInputs(ZeroHash, U32(10), U32(3)), NoPrivate)

\* C10: a score accepted by verify_score is a non-negative multiple of 10.
C10_AcceptedScoreNonNegative ==
    (op = "verify_score" /\ ret) => (score >= 0 /\ score % 10 = 0)
====
